---------------------------- MODULE Spec2Model ----------------------------
(***************************************************************************)
(* Host side of the Greaseweazle USB protocol: scripts/greaseweazle/usb.py *)
(* (class Unit) and scripts/greaseweazle/tools/util.py.                    *)
(*                                                                         *)
(* The model has three parts:                                              *)
(*  - the flux codec (_encode_flux, _decode_flux) as operators, computed   *)
(*    byte by byte with the shifts and masks of the source;                *)
(*  - the Unit session as a state machine in which every transport write   *)
(*    and every transport read of a method is one step;                    *)
(*  - the Unit at the far end of the serial line as the environment: each  *)
(*    byte it sends is an input drawn from a small set.                    *)
(***************************************************************************)
EXTENDS Integers, Sequences, FiniteSets, TLC

VARIABLES
    self,      \* the attributes of the Unit object (Absent: attribute not set)
    op,        \* the method (or function) being executed, "idle" between calls
    pc,        \* position inside the method
    arg,       \* the arguments of the call
    retry,     \* local variable retry of read_track / write_track
    dat,       \* local bytearray dat of _read_track / write_track
    flux_list, \* local flux_list of read_track
    cmd,       \* the frame _send_cmd has written and not yet seen acked
    rx,        \* bytes the transport delivered since the last ReadFlux frame
    log,       \* transport events of the current call, oldest first
    outcome,   \* how the call ended: a return value or the exception raised
    unacked,   \* frames on the wire whose two ack bytes were not read yet
    before,    \* the attributes of the Unit object when the call was entered
    wds        \* where with_drive_selected stands, and how it ended

vars ==
    <<self, op, pc, arg, retry, dat, flux_list, cmd, rx, log, outcome,
      unacked, before, wds>>

-----------------------------------------------------------------------------
(* Bounds of the model.                                                    *)

MaxLen == 3        \* longest flux list given to _encode_flux
MaxBuf == 5        \* longest byte buffer given to _decode_flux

-----------------------------------------------------------------------------
(* Program constants: class Cmd, class Ack, class Params.                  *)

Cmd_GetInfo == 0
Cmd_Seek == 1
Cmd_Side == 2
Cmd_SetParams == 3
Cmd_GetParams == 4
Cmd_Motor == 5
Cmd_ReadFlux == 6
Cmd_WriteFlux == 7
Cmd_GetFluxStatus == 8
Cmd_GetIndexTimes == 9
Cmd_Select == 10
Cmd_Update == 1

Ack_Okay == 0
Ack_BadCommand == 1
Ack_FluxOverflow == 4
Ack_FluxUnderflow == 5

Params_Delays == 0

-----------------------------------------------------------------------------
(* Python's integer operators on non-negative integers.                    *)

RECURSIVE Pow2(_)
Pow2(n) == IF n = 0 THEN 1 ELSE 2 * Pow2(n - 1)

\* a << n
Shl(a, n) == a * Pow2(n)

\* a >> n
Shr(a, n) == a \div Pow2(n)

RECURSIVE BitAnd(_, _)
\* a & b
BitAnd(a, b) ==
    IF a = 0 \/ b = 0 THEN 0
    ELSE (IF a % 2 = 1 /\ b % 2 = 1 THEN 1 ELSE 0)
         + 2 * BitAnd(a \div 2, b \div 2)

RECURSIVE BitOr(_, _)
\* a | b
BitOr(a, b) ==
    IF a = 0 THEN b
    ELSE IF b = 0 THEN a
    ELSE (IF a % 2 = 1 \/ b % 2 = 1 THEN 1 ELSE 0)
         + 2 * BitOr(a \div 2, b \div 2)

-----------------------------------------------------------------------------
(* Outcomes of a call.                                                     *)

NoOutcome == [kind |-> "none"]
Return(v) == [kind |-> "return", value |-> v]
\* CmdError(cmd, code), raised by _send_cmd
CmdError(c, r) == [kind |-> "CmdError", cmd |-> c, code |-> r]
\* any other exception: AssertionError, IndexError, AttributeError,
\* KeyboardInterrupt
Raise(name) == [kind |-> name]

\* with_drive_selected is not being executed
NoScope ==
    [at |-> "none", pending |-> NoOutcome, cancelled |-> FALSE,
     outcome |-> NoOutcome]

-----------------------------------------------------------------------------
(* _decode_flux: the bytes of dat are consumed through an iterator; a       *)
(* next() past the end raises StopIteration, which ends the loop wherever  *)
(* it happens, the value under construction being dropped.                 *)

\* the two statements after the loop: assert flux[-1] == 0; return flux[:-1]
DecodeFinish(flux) ==
    IF Len(flux) = 0 THEN Raise("IndexError")
    ELSE IF flux[Len(flux)] # 0 THEN Raise("AssertionError")
    ELSE Return(SubSeq(flux, 1, Len(flux) - 1))

\* the five-byte group: the four bytes after 255
DecodeLong(b1, b2, b3, b4) ==
    Shr(BitAnd(b1, 254), 1) + Shl(BitAnd(b2, 254), 6)
    + Shl(BitAnd(b3, 254), 13) + Shl(BitAnd(b4, 254), 20)

RECURSIVE DecodeLoop(_, _, _)
\* the while loop, with dat_i standing before position i (1-based)
DecodeLoop(d, i, flux) ==
    IF i > Len(d) THEN DecodeFinish(flux)
    ELSE IF d[i] < 250 THEN DecodeLoop(d, i + 1, Append(flux, d[i]))
    ELSE IF d[i] = 255 THEN
        IF i + 4 > Len(d) THEN DecodeFinish(flux)
        ELSE DecodeLoop(d, i + 5,
                 Append(flux, DecodeLong(d[i+1], d[i+2], d[i+3], d[i+4])))
    ELSE
        IF i + 1 > Len(d) THEN DecodeFinish(flux)
        ELSE DecodeLoop(d, i + 2,
                 Append(flux, (d[i] - 249) * 250 + (d[i+1] - 1)))

_decode_flux(d) == DecodeLoop(d, 1, <<>>)

-----------------------------------------------------------------------------
(* _encode_flux                                                            *)

\* the four bytes appended after 255 when every shifted value is shifted
\* left by one before it is masked
EncodeLong_ShiftedLeft(val) ==
    << BitOr(1, BitAnd(Shl(Shr(val, 0), 1), 255)),
       BitOr(1, BitAnd(Shl(Shr(val, 6), 1), 255)),
       BitOr(1, BitAnd(Shl(Shr(val, 13), 1), 255)),
       BitOr(1, BitAnd(Shl(Shr(val, 20), 1), 255)) >>

\* the four bytes appended after 255, with the bug of a missing "1 |"
EncodeLongNoStuffing(val) ==
    << BitAnd(Shl(val, 1), 255),
       BitAnd(Shr(val, 6), 255),
       BitAnd(Shr(val, 13), 255),
       BitAnd(Shr(val, 20), 255) >>

\* the four bytes appended after 255; in Python & binds tighter than |
EncodeLong(val) ==
    << BitOr(1, BitAnd(Shl(val, 1), 255)),
       BitOr(1, BitAnd(Shr(val, 6), 255)),
       BitOr(1, BitAnd(Shr(val, 13), 255)),
       BitOr(1, BitAnd(Shr(val, 20), 255)) >>

\* the body of the for loop with high <= 6 in place of high <= 5
EncodeValWideShort(val) ==
    IF val = 0 THEN <<>>
    ELSE IF val < 250 THEN <<val>>
    ELSE LET high == val \div 250 IN
         IF high <= 6 THEN <<249 + high, 1 + (val % 250)>>
         ELSE <<255>> \o EncodeLong(val)

\* the body of the for loop: the bytes appended for one value
EncodeVal(val) ==
    IF val = 0 THEN <<>>
    ELSE IF val < 250 THEN <<val>>
    ELSE LET high == val \div 250 IN
         IF high <= 5 THEN <<249 + high, 1 + (val % 250)>>
         ELSE <<255>> \o EncodeLong(val)

RECURSIVE EncodeLoop(_, _, _)
EncodeLoop(flux, i, d) ==
    IF i > Len(flux) THEN d
    ELSE EncodeLoop(flux, i + 1, d \o EncodeVal(flux[i]))

_encode_flux(flux) == Append(EncodeLoop(flux, 1, <<>>), 0)

-----------------------------------------------------------------------------
(* The Unit object: a Python object is its attribute dictionary.           *)

NewObject == [a \in {} |-> 0]
HasAttr(obj, a) == a \in DOMAIN obj
SetAttr(obj, a, v) == (a :> v) @@ obj
DelAttr(obj, names) == [a \in DOMAIN obj \ names |-> obj[a]]

-----------------------------------------------------------------------------
(* The codec on its own: the flux lists and the byte buffers a caller may  *)
(* hand to _encode_flux and _decode_flux.                                  *)

\* flux values on both sides of every branch of the encoder
FluxVals == {0, 1, 249, 250, 1499, 1500, 1749, 16384, 11259375, 268435455}

\* bytes on both sides of every branch of the decoder
BufBytes == {0, 1, 3, 250, 255}

SeqsUpTo(S, n) == UNION {[1..k -> S] : k \in 0..n}

InitCodec ==
    /\ self = NewObject
    /\ op \in {"_encode_flux", "_decode_flux"}
    /\ pc = "call"
    /\ arg \in IF op = "_encode_flux"
               THEN [flux : SeqsUpTo(FluxVals, MaxLen)]
               ELSE [dat : SeqsUpTo(BufBytes, MaxBuf)]
    /\ retry = 0
    /\ dat = <<>>
    /\ flux_list = <<>>
    /\ cmd = <<>>
    /\ rx = <<>>
    /\ log = <<>>
    /\ outcome = NoOutcome
    /\ unacked = 0
    /\ before = NewObject
    /\ wds = NoScope

\* dat = _encode_flux(flux)
EncodeFlux ==
    /\ op = "_encode_flux" /\ pc = "call"
    /\ dat' = _encode_flux(arg.flux)
    /\ pc' = "encoded"
    /\ UNCHANGED <<self, op, arg, retry, flux_list, cmd, rx, log, outcome,
                   unacked, before, wds>>

\* _decode_flux(dat) on the encoder's output
DecodeEncoded ==
    /\ op = "_encode_flux" /\ pc = "encoded"
    /\ outcome' = _decode_flux(dat)
    /\ pc' = "done"
    /\ UNCHANGED <<self, op, arg, retry, dat, flux_list, cmd, rx, log,
                   unacked, before, wds>>

\* _decode_flux(dat) on a buffer of the caller
DecodeFlux ==
    /\ op = "_decode_flux" /\ pc = "call"
    /\ dat' = arg.dat
    /\ outcome' = _decode_flux(arg.dat)
    /\ pc' = "done"
    /\ UNCHANGED <<self, op, arg, retry, flux_list, cmd, rx, log,
                   unacked, before, wds>>

NextCodec == EncodeFlux \/ DecodeEncoded \/ DecodeFlux

SpecCodec == InitCodec /\ [][NextCodec]_vars

-----------------------------------------------------------------------------
(* Claims about the codec (checked under SpecCodec).                       *)

NonZero(v) == v # 0

\* C1: for every flux list xs with values in [0, 2^28 - 1],
\* _decode_flux(_encode_flux(xs)) returns xs with all zero values removed
\* (xs itself when it contains no zero).
C1_RoundTrip ==
    (op = "_encode_flux" /\ pc = "done")
        => outcome = Return(SelectSeq(arg.flux, NonZero))

\* a round trip of a list that has a zero, a two-byte and a five-byte value
C1_Witness ==
    /\ op = "_encode_flux" /\ pc = "done"
    /\ \E i, j, k \in 1..Len(arg.flux) :
          arg.flux[i] = 0 /\ arg.flux[j] = 1499 /\ arg.flux[k] = 268435455
    /\ outcome.kind = "return"

\* C2: the last byte of _encode_flux(xs) is 0 and no other byte of it is 0.
C2_Terminator ==
    (op = "_encode_flux" /\ pc \in {"encoded", "done"})
        => /\ Len(dat) >= 1
           /\ dat[Len(dat)] = 0
           /\ \A i \in 1..(Len(dat) - 1) : dat[i] # 0

\* an encoding with a five-byte group whose value has seven low zero bits
C2_Witness ==
    /\ op = "_encode_flux" /\ pc = "encoded"
    /\ \E i \in 1..Len(arg.flux) : arg.flux[i] = 16384
    /\ Len(dat) >= 6

\* C3: _decode_flux returns a flux list only when the last byte of the
\* buffer is the 0 sentinel; every buffer whose last byte is not 0 (a
\* buffer that ends inside a group included) makes it fail.
C3_SentinelRequired ==
    (op = "_decode_flux" /\ pc = "done" /\ outcome.kind = "return")
        => (Len(arg.dat) >= 1 /\ arg.dat[Len(arg.dat)] = 0)

\* _encode_flux has run on a list of values in [1, 2^28 - 1]
EncodedNonZero ==
    /\ op = "_encode_flux" /\ pc # "call"
    /\ \A i \in 1..Len(arg.flux) : arg.flux[i] >= 1 /\ arg.flux[i] < Pow2(28)

\* the bytes stated for a value below 1500
ShortBytes(v) ==
    IF v <= 249 THEN <<v>> ELSE <<249 + (v \div 250), 1 + (v % 250)>>

\* the five bytes stated for v: 255, then 1 | ((v >> s) << 1) & 0xFF for
\* s = 0, 6, 13, 20
StatedBytes(v) ==
    IF v < 1500 THEN ShortBytes(v)
    ELSE <<255, 1 + 2 * (v % 128), 1 + 2 * ((v \div 64) % 128),
           1 + 2 * ((v \div 8192) % 128), 1 + 2 * ((v \div 1048576) % 128)>>

\* the five bytes emitted for v: 255, then bit 0 set and bits 0-6, 7-13,
\* 14-20, 21-27 of v in bits 1-7
EmittedBytes(v) ==
    IF v < 1500 THEN ShortBytes(v)
    ELSE <<255, 1 + 2 * (v % 128), 1 + 2 * ((v \div 128) % 128),
           1 + 2 * ((v \div 16384) % 128), 1 + 2 * ((v \div 2097152) % 128)>>

RECURSIVE StatedStream(_)
StatedStream(q) ==
    IF q = <<>> THEN <<0>> ELSE StatedBytes(Head(q)) \o StatedStream(Tail(q))

RECURSIVE EmittedStream(_)
EmittedStream(q) ==
    IF q = <<>> THEN <<0>>
    ELSE EmittedBytes(Head(q)) \o EmittedStream(Tail(q))

\* C20 as stated: _encode_flux emits, for each value v, one byte v up to
\* 249, the two bytes 249 + v div 250, 1 + v mod 250 up to 1499, and above
\* that 255 and the four bytes 1 | ((v >> s) << 1) & 0xFF for s = 0, 6,
\* 13, 20; then the 0 byte.
C20_StatedBytes == EncodedNonZero => dat = StatedStream(arg.flux)

\* C20: as above, but the four bytes after 255 are 1 | (v << 1) & 0xFF,
\* 1 | (v >> 6) & 0xFF, 1 | (v >> 13) & 0xFF, 1 | (v >> 20) & 0xFF: bit 0
\* set and seven bits of v each, bits 0-6, 7-13, 14-20, 21-27.
C20_EmittedBytes == EncodedNonZero => dat = EmittedStream(arg.flux)

\* one value of each form: 1500, 250, 249
C20_Witness ==
    /\ EncodedNonZero
    /\ arg.flux = <<1500, 250, 249>>
    /\ dat = <<255, 185, 23, 1, 1, 250, 1, 249, 0>>

-----------------------------------------------------------------------------
(* The session: struct.pack / struct.unpack, the frames, the replies.      *)

RECURSIVE Pow256(_)
Pow256(n) == IF n = 0 THEN 1 ELSE 256 * Pow256(n - 1)

\* struct.pack of one little-endian unsigned integer of n bytes
PackLE(v, n) == [i \in 1..n |-> (v \div Pow256(i - 1)) % 256]

RECURSIVE UnpackLE(_, _, _)
\* struct.unpack of the n-byte little-endian integer at b[at..at+n-1]
UnpackLE(b, at, n) ==
    IF n = 0 THEN 0 ELSE b[at] + 256 * UnpackLE(b, at + 1, n - 1)

RECURSIVE PackAll(_, _)
\* struct.pack("<kI" / "<kH", ...): the values of vs, n bytes each
PackAll(vs, n) ==
    IF vs = <<>> THEN <<>> ELSE PackLE(Head(vs), n) \o PackAll(Tail(vs), n)

\* struct.unpack("<kI" / "<kH", b): k integers of n bytes each
UnpackAll(b, k, n) == [i \in 1..k |-> UnpackLE(b, (i - 1) * n + 1, n)]

\* int(state) of a Python bool
BoolInt(state) == IF state THEN 1 ELSE 0

\* the delays with step before select
DelayAttrs_Swapped ==
    << "_step_delay", "_select_delay", "_seek_settle_delay",
       "_motor_delay", "_auto_off_delay" >>

\* the five delay attributes, in the order of _set_delays
DelayAttrs ==
    << "_select_delay", "_step_delay", "_seek_settle_delay",
       "_motor_delay", "_auto_off_delay" >>

DelayAttrSet == {DelayAttrs[i] : i \in 1..5}

\* greaseweazle.version of the host tools
version == [major |-> 0, minor |-> 7]

\* transport events
Wr(bytes) == [ev |-> "write", data |-> bytes]
Rd(bytes) == [ev |-> "read", data |-> bytes]
ResetEv == [ev |-> "reset", data |-> <<>>]

\* the places where a method calls _send_cmd, named by the command sent
SendSites ==
    { "GetInfo", "GetParams", "Seek", "Side", "Select", "Motor", "ReadFlux",
      "GetFluxStatus", "GetIndexTimes", "WriteFlux", "Update", "SetParams" }

\* the struct.pack(...) argument of _send_cmd at each of these places
Frame(site) ==
    CASE site = "GetInfo" -> <<Cmd_GetInfo, 3, 0>>
      [] site = "GetParams" -> <<Cmd_GetParams, 4, Params_Delays, 10>>
      [] site = "Seek" -> <<Cmd_Seek, 3, arg.cyl>>
      [] site = "Side" -> <<Cmd_Side, 3, arg.side>>
      [] site = "Select" -> <<Cmd_Select, 3, BoolInt(arg.state)>>
      [] site = "Motor" -> <<Cmd_Motor, 3, BoolInt(arg.state)>>
      [] site = "ReadFlux" -> <<Cmd_ReadFlux, 3, arg.nr_revs + 1>>
      [] site = "GetFluxStatus" -> <<Cmd_GetFluxStatus, 2>>
      [] site = "GetIndexTimes" -> <<Cmd_GetIndexTimes, 4, 0, arg.nr_revs + 1>>
      [] site = "WriteFlux" -> <<Cmd_WriteFlux, 7>> \o PackLE(0, 4) \o <<1>>
      [] site = "Update" -> <<Cmd_Update, 6>> \o PackLE(Len(arg.dat), 4)
      [] site = "SetParams" ->
            <<Cmd_SetParams, 3 + 5 * 2, Params_Delays>>
            \o PackAll([i \in 1..5 |-> self[DelayAttrs[i]]], 2)

\* _send_cmd after the two ack bytes (c, r) are read: the exception raised,
\* or NoOutcome when it returns
SendCmdResult(frame, reply) ==
    IF reply[1] # frame[1] THEN Raise("AssertionError")
    ELSE IF reply[2] # 0 THEN CmdError(reply[1], reply[2])
    ELSE NoOutcome

\* where a method stands after a step: next position, retry, outcome
Goto(l) == [pc |-> l, retry |-> retry, outcome |-> NoOutcome]
Done(o) == [pc |-> "done", retry |-> retry, outcome |-> o]
Again(l) == [pc |-> l, retry |-> retry + 1, outcome |-> NoOutcome]

\* a method whose frames are sent one after the other, any exception
\* propagating: after the ack of one frame, go to l
Straight(r, l) == IF r.kind = "none" THEN Goto(l) ELSE Done(r)

\* __init__ after the ack of GetInfo / GetParams
Unit_after(site, r) ==
    CASE site = "GetInfo" -> Straight(r, "GetInfo.read")
      [] site = "GetParams" -> Straight(r, "GetParams.read")

\* seek after the ack of Seek / Side
seek_after(site, r) ==
    CASE site = "Seek" -> Straight(r, "Side")
      [] site = "Side" -> IF r.kind = "none" THEN Done(Return("None")) ELSE Done(r)

\* drive_select, drive_motor, _set_delays after the ack of their one frame
single_after(r) == IF r.kind = "none" THEN Done(Return("None")) ELSE Done(r)

\* update_firmware going on whatever the ack of Update
update_firmware_after_Unchecked(r) == Goto("payload")

\* update_firmware after the ack of Update
update_firmware_after(r) == Straight(r, "payload")

\* read_track's except clause, with retry <= nr_retries
read_track_except_OneMore(error) ==
    IF error.kind = "CmdError" /\ error.code = Ack_FluxOverflow
       /\ retry <= arg.nr_retries
    THEN Again("_read_track")
    ELSE Done(error)

\* read_track's except clause, retrying whatever the code
read_track_except_AnyCode(error) ==
    IF error.kind = "CmdError" /\ retry < arg.nr_retries
    THEN Again("_read_track")
    ELSE Done(error)

\* read_track's except clause: it sees every CmdError _read_track raises
read_track_except(error) ==
    IF error.kind = "CmdError" /\ error.code = Ack_FluxOverflow
       /\ retry < arg.nr_retries
    THEN Again("_read_track")
    ELSE Done(error)

\* read_track after the ack of ReadFlux / GetFluxStatus (both inside
\* _read_track, so inside the try) and of GetIndexTimes (outside it)
read_track_after(site, r) ==
    CASE site = "ReadFlux" ->
            IF r.kind = "none" THEN Goto("stream") ELSE read_track_except(r)
      [] site = "GetFluxStatus" ->
            IF r.kind = "none" THEN Goto("decode") ELSE read_track_except(r)
      [] site = "GetIndexTimes" -> Straight(r, "GetIndexTimes.read")

\* write_track's except clause, with retry <= nr_retries
write_track_except_OneMore(error) ==
    IF error.kind = "CmdError" /\ error.code = Ack_FluxUnderflow
       /\ retry <= arg.nr_retries
    THEN Again("WriteFlux")
    ELSE Done(error)

\* write_track's except clause
write_track_except(error) ==
    IF error.kind = "CmdError" /\ error.code = Ack_FluxUnderflow
       /\ retry < arg.nr_retries
    THEN Again("WriteFlux")
    ELSE Done(error)

\* write_track after the ack of WriteFlux / GetFluxStatus
write_track_after(site, r) ==
    CASE site = "WriteFlux" ->
            IF r.kind = "none" THEN Goto("payload") ELSE write_track_except(r)
      [] site = "GetFluxStatus" ->
            IF r.kind = "none" THEN Done(Return("None"))
            ELSE write_track_except(r)

\* the caller of _send_cmd resumes
AfterAck(site, r) ==
    CASE op = "__init__" -> Unit_after(site, r)
      [] op = "seek" -> seek_after(site, r)
      [] op \in {"drive_select", "drive_motor", "set_delay"} -> single_after(r)
      [] op = "update_firmware" -> update_firmware_after(r)
      [] op = "read_track" -> read_track_after(site, r)
      [] op = "write_track" -> write_track_after(site, r)

-----------------------------------------------------------------------------
(* What the Unit may send.                                                 *)

\* ack codes: Okay, Bad Command, Flux Overflow, Flux Underflow
AckCodes == {Ack_Okay, Ack_BadCommand, Ack_FluxOverflow, Ack_FluxUnderflow}

\* the two ack bytes for a frame whose command byte is c: the echo with
\* any code, or a wrong echo
AckReplies(c) == {<<c, r>> : r \in AckCodes} \cup {<<(c + 1) % 256, 0>>}

\* GetInfo replies: main firmware of the host's version, main firmware of
\* another version, bootloader with (1) and without (0) the update jumper,
\* main firmware of the host's version that accepts commands 0..9 only
MainInfo ==
    [major |-> 0, minor |-> 7, max_index |-> 8, max_cmd |-> 10,
     sample_freq |-> 72000000]
OldInfo ==
    [major |-> 0, minor |-> 6, max_index |-> 8, max_cmd |-> 10,
     sample_freq |-> 72000000]
BootInfo(jumper) ==
    [major |-> 0, minor |-> 7, max_index |-> 0, max_cmd |-> 1,
     sample_freq |-> jumper]

LowCmdInfo ==
    [major |-> 0, minor |-> 7, max_index |-> 8, max_cmd |-> 9,
     sample_freq |-> 72000000]

InfoReplies == {MainInfo, OldInfo, BootInfo(1), BootInfo(0), LowCmdInfo}

\* the 32 bytes the Unit sends for a GetInfo reply
InfoWire(i) ==
    <<i.major, i.minor, i.max_index, i.max_cmd>> \o PackLE(i.sample_freq, 4)
    \o [k \in 1..24 |-> 0]

\* GetParams replies: the five delays
FirstParams == <<10, 3000, 15, 750, 10000>>
ParamReplies == { FirstParams, <<20, 5000, 30, 500, 300>> }

-----------------------------------------------------------------------------
(* _send_cmd, for whichever method calls it.                               *)

\* _send_cmd returning after the write, without reading the ack
Outstanding_None(frame) == <<>>

\* the frame whose two ack bytes _send_cmd reads before it returns
Outstanding(frame) == frame

\* self.ser.write(cmd)
SendCmd_write ==
    /\ pc \in SendSites /\ cmd = <<>>
    /\ cmd' = Outstanding(Frame(pc))
    /\ log' = Append(log, Wr(Frame(pc)))
    /\ rx' = IF pc = "ReadFlux" THEN <<>> ELSE rx
    /\ unacked' = unacked + 1
    /\ UNCHANGED <<self, op, pc, arg, retry, dat, flux_list, outcome,
                   before, wds>>

\* (c,r) = struct.unpack("2B", self.ser.read(2)); assert; raise or return
SendCmd_ack ==
    /\ pc \in SendSites /\ cmd # <<>>
    /\ \E reply \in AckReplies(cmd[1]) :
          /\ LET n == AfterAck(pc, SendCmdResult(cmd, reply)) IN
                /\ pc' = n.pc
                /\ retry' = n.retry
                /\ outcome' = n.outcome
          /\ log' = Append(log, Rd(reply))
    /\ cmd' = <<>>
    /\ unacked' = unacked - 1
    /\ UNCHANGED <<self, op, arg, dat, flux_list, rx, before, wds>>

-----------------------------------------------------------------------------
(* Unit.__init__ and reset.                                                *)

InitUnit ==
    /\ self = NewObject
    /\ op = "__init__"
    /\ pc = "reset"
    /\ arg = [ser |-> "ser"]
    /\ retry = 0
    /\ dat = <<>>
    /\ flux_list = <<>>
    /\ cmd = <<>>
    /\ rx = <<>>
    /\ log = <<>>
    /\ outcome = NoOutcome
    /\ unacked = 0
    /\ before = NewObject
    /\ wds = NoScope

\* self.reset(): no byte is written, and reset_input_buffer drops the
\* ack bytes that were still to be read
Unit_reset ==
    /\ op = "__init__" /\ pc = "reset"
    /\ log' = Append(log, ResetEv)
    /\ unacked' = 0
    /\ pc' = "GetInfo"
    /\ UNCHANGED <<self, op, arg, retry, dat, flux_list, cmd, rx, outcome,
                   before, wds>>

\* the attributes after lines 83-98, and whether __init__ returns there
Unit_info(x) ==
    LET s1 == SetAttr(SetAttr(SetAttr(SetAttr(SetAttr(self,
                  "major", x[1]), "minor", x[2]), "max_index", x[3]),
                  "max_cmd", x[4]), "sample_freq", x[5])
        s2 == SetAttr(s1, "update_mode", s1.max_index = 0)
    IN  IF s2.update_mode
        THEN [self |-> DelAttr(SetAttr(s2, "update_jumpered",
                                       BitAnd(s2.sample_freq, 1)),
                               {"max_index", "sample_freq"}),
              returns |-> TRUE]
        ELSE LET s3 == SetAttr(s2, "update_needed",
                           version.major # s2.major \/ version.minor # s2.minor)
             IN [self |-> s3, returns |-> s3.update_needed]

\* x = struct.unpack("<4BI24x", self.ser.read(32)) and what follows
Unit_GetInfo_read(info) ==
    /\ op = "__init__" /\ pc = "GetInfo.read"
    /\ LET b == InfoWire(info)
           x == <<b[1], b[2], b[3], b[4], UnpackLE(b, 5, 4)>>
           n == Unit_info(x)
       IN /\ log' = Append(log, Rd(b))
          /\ self' = n.self
          /\ pc' = IF n.returns THEN "done" ELSE "GetParams"
          /\ outcome' = IF n.returns THEN Return("None") ELSE NoOutcome
    /\ UNCHANGED <<op, arg, retry, dat, flux_list, cmd, rx,
                   unacked, before, wds>>

RECURSIVE SetAttrs(_, _, _, _)
\* the tuple assignment of lines 101-103
SetAttrs(obj, names, vals, i) ==
    IF i > Len(names) THEN obj
    ELSE SetAttrs(SetAttr(obj, names[i], vals[i]), names, vals, i + 1)

\* the delays = struct.unpack("<5H", self.ser.read(10))
Unit_GetParams_read(params) ==
    /\ op = "__init__" /\ pc = "GetParams.read"
    /\ LET b == PackAll(params, 2) IN
          /\ log' = Append(log, Rd(b))
          /\ self' = SetAttrs(self, DelayAttrs, UnpackAll(b, 5, 2), 1)
    /\ pc' = "done"
    /\ outcome' = Return("None")
    /\ UNCHANGED <<op, arg, retry, dat, flux_list, cmd, rx,
                   unacked, before, wds>>

\* a method can be called once the constructor or the last call is over
\* (a Unit whose constructor raised does not exist)
CanCall == pc = "done" /\ (op = "__init__" => outcome.kind = "return")

\* entering a method: fresh locals (dat starting as d); l is the record of
\* the transport the method continues
Enter(name, a, entry, d, l) ==
    /\ CanCall
    /\ op' = name
    /\ arg' = a
    /\ pc' = entry
    /\ retry' = 0
    /\ dat' = d
    /\ flux_list' = <<>>
    /\ rx' = <<>>
    /\ log' = l
    /\ outcome' = NoOutcome
    /\ before' = self
    /\ UNCHANGED <<self, cmd, unacked>>

\* a method called by the caller itself: fresh record of the transport
CallWith(name, a, entry, d) ==
    /\ wds.at = "none"
    /\ Enter(name, a, entry, d, <<>>)
    /\ UNCHANGED wds

Call(name, a, entry) == CallWith(name, a, entry, <<>>)

-----------------------------------------------------------------------------
(* seek, drive_select, drive_motor.                                        *)

seek(cyl, side) == Call("seek", [cyl |-> cyl, side |-> side], "Seek")

drive_select(state) == Call("drive_select", [state |-> state], "Select")

drive_motor(state) == Call("drive_motor", [state |-> state], "Motor")

-----------------------------------------------------------------------------
(* read_track and _read_track.                                             *)

MaxRevs == 1       \* largest nr_revs of a read_track call
MaxRetries == 1    \* largest nr_retries of a read_track / write_track call
MaxDat == 4        \* most bytes the Unit streams after one ReadFlux
MaxChunk == 2      \* most bytes one pass of the streaming loop reads

\* bytes the Unit streams: the terminator, a plain value, the header of a
\* two-byte group
StreamBytes == {0, 3, 250}

\* ticks the Unit reports in GetIndexTimes
IndexVals == {0, 4, 1000}

Chunks == UNION {[1..k -> StreamBytes] : k \in 1..MaxChunk}

read_track(nr_revs, nr_retries) ==
    Call("read_track", [nr_revs |-> nr_revs, nr_retries |-> nr_retries],
         "_read_track")

\* dat at the start of _read_track, with the bug of keeping the old bytes
ReadTrackDat_Kept == dat

\* dat = bytearray() at the start of _read_track
ReadTrackDat == <<>>

\* _read_track is entered (first attempt and every retry)
ReadTrack_enter ==
    /\ op = "read_track" /\ pc = "_read_track"
    /\ dat' = ReadTrackDat
    /\ pc' = "ReadFlux"
    /\ UNCHANGED <<self, op, arg, retry, flux_list, cmd, rx, log, outcome,
                   unacked, before, wds>>

\* the loop left after its first pass, whatever byte came last
StreamEnded_FirstPass(d) == TRUE

\* if dat[-1] == 0: break
StreamEnded(d) == d[Len(d)] = 0

\* one pass of the loop: dat += read(1); dat += read(in_waiting); the
\* chunk is what the two reads return together
ReadTrack_stream(chunk) ==
    /\ op = "read_track" /\ pc = "stream"
    /\ Len(rx) + Len(chunk) <= MaxDat
    /\ Len(rx) + Len(chunk) = MaxDat => chunk[Len(chunk)] = 0
    /\ dat' = dat \o chunk
    /\ rx' = rx \o chunk
    /\ pc' = IF StreamEnded(dat') THEN "GetFluxStatus" ELSE "stream"
    /\ UNCHANGED <<self, op, arg, retry, flux_list, cmd, log, outcome,
                   unacked, before, wds>>

\* flux_list = self._decode_flux(dat)
ReadTrack_decode ==
    /\ op = "read_track" /\ pc = "decode"
    /\ LET r == _decode_flux(dat) IN
          IF r.kind = "return"
          THEN flux_list' = r.value /\ pc' = "GetIndexTimes"
               /\ outcome' = NoOutcome
          ELSE flux_list' = flux_list /\ pc' = "done" /\ outcome' = r
    /\ UNCHANGED <<self, op, arg, retry, dat, cmd, rx, log,
                   unacked, before, wds>>

RECURSIVE ClipLoop_NoResidual(_, _, _)
\* the for loop without the assignment flux_list[i] = -to_index
ClipLoop_NoResidual(fl, to_index, i) ==
    IF i > Len(fl) THEN [flux_list |-> fl, to_index |-> to_index]
    ELSE LET t == to_index - fl[i] IN
         IF t < 0
         THEN [flux_list |-> SubSeq(fl, i, Len(fl)), to_index |-> t]
         ELSE ClipLoop_NoResidual(fl, t, i + 1)

RECURSIVE ClipLoop_DropOne(_, _, _)
\* the for loop with flux_list[i+1:] in place of flux_list[i:]
ClipLoop_DropOne(fl, to_index, i) ==
    IF i > Len(fl) THEN [flux_list |-> fl, to_index |-> to_index]
    ELSE LET t == to_index - fl[i] IN
         IF t < 0
         THEN [flux_list |-> SubSeq(fl, i + 1, Len(fl)), to_index |-> t]
         ELSE ClipLoop_DropOne(fl, t, i + 1)

RECURSIVE ClipLoop(_, _, _)
\* the for loop of lines 255-260, standing at position i (1-based)
ClipLoop(fl, to_index, i) ==
    IF i > Len(fl) THEN [flux_list |-> fl, to_index |-> to_index]
    ELSE LET t == to_index - fl[i] IN
         IF t < 0
         THEN [flux_list |-> SubSeq([fl EXCEPT ![i] = -t], i, Len(fl)),
               to_index |-> t]
         ELSE ClipLoop(fl, t, i + 1)

\* lines 254-263: the clipped flux list
Clip(fl, index_list) ==
    LET r == ClipLoop(fl, index_list[1], 1) IN
    IF r.to_index >= 0 THEN <<>> ELSE r.flux_list

\* x = struct.unpack("<%dI" % nr, self.ser.read(4*nr)), the clipping and
\* the return of Flux(index_list, flux_list, self.sample_freq)
ReadTrack_GetIndexTimes_read(times) ==
    /\ op = "read_track" /\ pc = "GetIndexTimes.read"
    /\ Len(times) = arg.nr_revs + 1
    /\ LET b == PackAll(times, 4)
           index_list == UnpackAll(b, arg.nr_revs + 1, 4)
           clipped == Clip(flux_list, index_list)
       IN /\ log' = Append(log, Rd(b))
          /\ flux_list' = clipped
          /\ outcome' =
               IF HasAttr(self, "sample_freq")
               THEN Return([index_list |-> Tail(index_list),
                            flux_list |-> clipped,
                            sample_freq |-> self.sample_freq])
               ELSE Raise("AttributeError")
    /\ pc' = "done"
    /\ UNCHANGED <<self, op, arg, retry, dat, cmd, rx,
                   unacked, before, wds>>

-----------------------------------------------------------------------------
(* write_track.                                                            *)

MaxFlux == 2       \* longest flux list given to write_track

\* flux values a caller writes: dropped, one byte, two bytes, five bytes
WriteVals == {0, 100, 300, 1500}

\* the byte the Unit sends for the sync read
SyncBytes == {0, 1}

\* dat = self._encode_flux(flux_list); retry = 0
write_track(flux, nr_retries) ==
    CallWith("write_track", [flux_list |-> flux, nr_retries |-> nr_retries],
             "WriteFlux", _encode_flux(flux))

\* self.ser.write(dat)
WriteTrack_payload ==
    /\ op = "write_track" /\ pc = "payload"
    /\ log' = Append(log, Wr(dat))
    /\ pc' = "sync"
    /\ UNCHANGED <<self, op, arg, retry, dat, flux_list, cmd, rx, outcome,
                   unacked, before, wds>>

\* self.ser.read(1) # Sync with Greaseweazle
WriteTrack_sync(b) ==
    /\ op = "write_track" /\ pc = "sync"
    /\ log' = Append(log, Rd(<<b>>))
    /\ pc' = "GetFluxStatus"
    /\ UNCHANGED <<self, op, arg, retry, dat, flux_list, cmd, rx, outcome,
                   unacked, before, wds>>

-----------------------------------------------------------------------------
(* update_firmware.                                                        *)

\* firmware images a caller sends, and the ack byte of the bootloader
Images == {<<>>, <<7>>, <<7, 9>>}
UpdateAcks == {0, 1}

update_firmware(image) == Call("update_firmware", [dat |-> image], "Update")

\* self.ser.write(dat)
UpdateFirmware_payload ==
    /\ op = "update_firmware" /\ pc = "payload"
    /\ log' = Append(log, Wr(arg.dat))
    /\ pc' = "ack.read"
    /\ UNCHANGED <<self, op, arg, retry, dat, flux_list, cmd, rx, outcome,
                   unacked, before, wds>>

\* (ack,) = struct.unpack("B", self.ser.read(1)); return ack
UpdateFirmware_ack(b) ==
    /\ op = "update_firmware" /\ pc = "ack.read"
    /\ log' = Append(log, Rd(<<b>>))
    /\ pc' = "done"
    /\ outcome' = Return(b)
    /\ UNCHANGED <<self, op, arg, retry, dat, flux_list, cmd, rx,
                   unacked, before, wds>>

-----------------------------------------------------------------------------
(* The delay setters and _set_delays.                                      *)

\* values a caller assigns to a delay
DelayVals == {10, 40000}

\* the assignment of a setter that is lost
AssignDelay_Dropped(a, v) == self

\* self._<name> = <name>
AssignDelay(a, v) == SetAttr(self, a, v)

\* <name>.getter: return self._<name>
get_delay(a) == self[a]

\* <name>.setter: self._<name> = value; self._set_delays().  The arguments
\* of struct.pack are read before any byte is written: a missing attribute
\* raises AttributeError there.
set_delay(a, v) ==
    /\ CanCall /\ wds.at = "none"
    /\ op' = "set_delay"
    /\ arg' = [attr |-> a, value |-> v]
    /\ before' = self
    /\ self' = AssignDelay(a, v)
    /\ IF DelayAttrSet \subseteq DOMAIN self'
       THEN pc' = "SetParams" /\ outcome' = NoOutcome
       ELSE pc' = "done" /\ outcome' = Raise("AttributeError")
    /\ retry' = 0
    /\ dat' = <<>>
    /\ flux_list' = <<>>
    /\ rx' = <<>>
    /\ log' = <<>>
    /\ UNCHANGED <<cmd, unacked, wds>>

-----------------------------------------------------------------------------
(* tools/util.py: with_drive_selected(fn, usb, args).  fn is a read of one *)
(* track.  wds.at is the statement being executed, wds.pending the         *)
(* exception the finally clause re-raises when it completes, wds.outcome   *)
(* how with_drive_selected ended.                                          *)

InterruptEv == [ev |-> "interrupt", data |-> <<>>]
CloseEv == [ev |-> "close", data |-> <<>>]
OpenEv == [ev |-> "open", data |-> <<>>]

\* the statements of the try block
TryBlock == {"select_on", "motor_on", "fn"}

\* try: usb.drive_select(True)
WDS_enter ==
    /\ wds.at \in {"none", "exited"}
    /\ Enter("drive_select", [state |-> TRUE], "Select", <<>>, <<>>)
    /\ wds' = [NoScope EXCEPT !.at = "select_on"]

\* usb.drive_motor(True)
WDS_drive_motor ==
    /\ wds.at = "select_on" /\ outcome.kind = "return"
    /\ Enter("drive_motor", [state |-> TRUE], "Motor", <<>>, log)
    /\ wds' = [wds EXCEPT !.at = "motor_on"]

\* fn(usb, args)
WDS_fn(nr_revs, nr_retries) ==
    /\ wds.at = "motor_on" /\ outcome.kind = "return"
    /\ Enter("read_track", [nr_revs |-> nr_revs, nr_retries |-> nr_retries],
             "_read_track", <<>>, log)
    /\ wds' = [wds EXCEPT !.at = "fn"]

\* the try block is left: fn returned (its value is dropped), or a
\* statement raised an exception that no except clause handles
WDS_leave_try ==
    /\ wds.at \in TryBlock /\ pc = "done"
    /\ wds.at = "fn" \/ outcome.kind # "return"
    /\ wds' = [wds EXCEPT
                 !.at = "finally",
                 !.pending = IF outcome.kind = "return" THEN NoOutcome
                                                        ELSE outcome]
    /\ UNCHANGED <<self, op, pc, arg, retry, dat, flux_list, cmd, rx, log,
                   outcome, unacked, before>>

\* KeyboardInterrupt raised inside a statement of the try block: the
\* method is abandoned where it stands, an ack it was waiting for stays
\* unread
WDS_interrupt ==
    /\ wds.at \in TryBlock /\ pc # "done"
    /\ pc' = "done"
    /\ outcome' = Raise("KeyboardInterrupt")
    /\ cmd' = <<>>
    /\ log' = Append(log, InterruptEv)
    /\ wds' = [wds EXCEPT !.at = "except", !.cancelled = TRUE]
    /\ UNCHANGED <<self, op, arg, retry, dat, flux_list, rx, unacked, before>>

\* except KeyboardInterrupt: print(); usb.reset(); usb.ser.close();
\* usb.ser.open()
WDS_except ==
    /\ wds.at = "except"
    /\ log' = log \o <<ResetEv, CloseEv, OpenEv>>
    /\ unacked' = 0
    /\ wds' = [wds EXCEPT !.at = "finally"]
    /\ UNCHANGED <<self, op, pc, arg, retry, dat, flux_list, cmd, rx,
                   outcome, before>>

\* finally: usb.drive_motor(False)
WDS_finally ==
    /\ wds.at = "finally"
    /\ Enter("drive_motor", [state |-> FALSE], "Motor", <<>>, log)
    /\ wds' = [wds EXCEPT !.at = "motor_off"]

\* usb.drive_select(False)
WDS_drive_select_off ==
    /\ wds.at = "motor_off" /\ outcome.kind = "return"
    /\ Enter("drive_select", [state |-> FALSE], "Select", <<>>, log)
    /\ wds' = [wds EXCEPT !.at = "select_off"]

\* the finally clause is left: by an exception of one of its two calls, or
\* at its end, where the pending exception is re-raised or None returned
WDS_exit ==
    /\ pc = "done"
    /\ \/ wds.at = "motor_off" /\ outcome.kind # "return"
       \/ wds.at = "select_off"
    /\ wds' = [wds EXCEPT
                 !.at = "exited",
                 !.outcome = IF outcome.kind # "return" THEN outcome
                             ELSE IF wds.pending.kind = "none"
                                  THEN Return("None")
                                  ELSE wds.pending]
    /\ UNCHANGED <<self, op, pc, arg, retry, dat, flux_list, cmd, rx, log,
                   outcome, unacked, before>>

-----------------------------------------------------------------------------
(* The specifications: a session is constructed and then used by a caller  *)
(* that makes one call after the other.                                    *)

Booleans == {TRUE, FALSE}

\* the constructor and _send_cmd, for a Unit that answers GetInfo with one
\* of infos and GetParams with one of params
SessionOf(infos, params) ==
    \/ Unit_reset
    \/ SendCmd_write
    \/ SendCmd_ack
    \/ \E info \in infos : Unit_GetInfo_read(info)
    \/ \E p \in params : Unit_GetParams_read(p)

\* the Units a caller of read_track / write_track meets: main firmware of
\* the host's version, and the bootloader (sample_freq deleted)
TrackInfos == {MainInfo, BootInfo(1)}

\* the steps of read_track
ReadSteps ==
    \/ ReadTrack_enter
    \/ \E chunk \in Chunks : ReadTrack_stream(chunk)
    \/ ReadTrack_decode
    \/ \E times \in UNION {[1..k -> IndexVals] : k \in 1..(MaxRevs + 1)} :
          ReadTrack_GetIndexTimes_read(times)

\* a caller that reads tracks
ReadCalls ==
    \/ \E n \in 0..MaxRevs, r \in 0..MaxRetries : read_track(n, r)
    \/ ReadSteps

\* the steps of write_track
WriteSteps ==
    \/ WriteTrack_payload
    \/ \E b \in SyncBytes : WriteTrack_sync(b)

\* a caller that writes tracks
WriteCalls ==
    \/ \E f \in SeqsUpTo(WriteVals, MaxFlux), r \in 0..MaxRetries :
          write_track(f, r)
    \/ WriteSteps

\* a caller of the short methods, who assigns the values vals to the
\* delays attrs
ShortCallsOf(attrs, vals) ==
    \/ \E cyl \in {0, 79}, side \in {0, 1} : seek(cyl, side)
    \/ \E state \in Booleans : drive_select(state)
    \/ \E state \in Booleans : drive_motor(state)
    \/ \E image \in Images : update_firmware(image)
    \/ UpdateFirmware_payload
    \/ \E b \in UpdateAcks : UpdateFirmware_ack(b)
    \/ \E a \in attrs, v \in vals : set_delay(a, v)

\* a caller of the short methods
ShortCalls == ShortCallsOf(DelayAttrSet, DelayVals)

NextRead == SessionOf(TrackInfos, {FirstParams}) \/ ReadCalls
SpecRead == InitUnit /\ [][NextRead]_vars

NextWrite == SessionOf(TrackInfos, {FirstParams}) \/ WriteCalls
SpecWrite == InitUnit /\ [][NextWrite]_vars

Next == SessionOf(InfoReplies, ParamReplies) \/ ShortCalls
Spec == InitUnit /\ [][Next]_vars

\* the flux lists written by a caller of every method
SessionFlux == {<<>>, <<300>>}

\* a caller of every method of the session, who reads up to the first
\* index pulse, writes a list of SessionFlux and assigns the select delay
\* only
SessionCalls ==
    \/ \E r \in 0..MaxRetries : read_track(0, r)
    \/ ReadSteps
    \/ \E f \in SessionFlux, r \in 0..MaxRetries : write_track(f, r)
    \/ WriteSteps
    \/ ShortCallsOf({"_select_delay"}, {10})

NextSession == SessionOf(TrackInfos, {FirstParams}) \/ SessionCalls
SpecSession == InitUnit /\ [][NextSession]_vars

\* a caller that reads one track after the other inside
\* with_drive_selected; usb_open has let only main firmware of the host's
\* version through
ScopedCalls ==
    \/ WDS_enter
    \/ WDS_drive_motor
    \/ WDS_fn(0, 0)
    \/ WDS_leave_try
    \/ WDS_interrupt
    \/ WDS_except
    \/ WDS_finally
    \/ WDS_drive_select_off
    \/ WDS_exit

NextScoped == SessionOf({MainInfo}, {FirstParams}) \/ ReadSteps \/ ScopedCalls
SpecScoped == InitUnit /\ [][NextScoped]_vars

-----------------------------------------------------------------------------
(* Reading the record of the transport.                                    *)

Last(q) == q[Len(q)]

\* log[i] is the two ack bytes _send_cmd read for the frame log[i-1]
IsAck(i) ==
    /\ i > 1
    /\ log[i].ev = "read" /\ Len(log[i].data) = 2
    /\ log[i - 1].ev = "write"
    /\ Len(log[i - 1].data) >= 2 /\ log[i - 1].data[2] = Len(log[i - 1].data)

\* log[i] is an ack that makes _send_cmd raise CmdError
IsErrorAck(i) ==
    IsAck(i) /\ log[i].data[1] = log[i - 1].data[1] /\ log[i].data[2] # 0

\* log[i] is the frame of command c (its length byte is the frame's length)
IsFrame(i, c) ==
    /\ log[i].ev = "write"
    /\ Len(log[i].data) >= 2
    /\ log[i].data[1] = c /\ log[i].data[2] = Len(log[i].data)

\* log[i] is the ack (c, r) read for a frame of command c
AckOf(i, c, r) == IsAck(i) /\ IsFrame(i - 1, c) /\ log[i].data = <<c, r>>

\* the number of frames of command c written in the current call
NrFrames(c) == Cardinality({i \in 1..Len(log) : IsFrame(i, c)})

RECURSIVE Sum(_)
Sum(q) == IF q = <<>> THEN 0 ELSE Head(q) + Sum(Tail(q))

Returned == pc = "done" /\ outcome.kind = "return"

-----------------------------------------------------------------------------
(* Claims about read_track (checked under SpecRead).                       *)

\* C4: every element of the flux_list of a flux record returned by
\* read_track is >= 1, whatever the Unit streamed and reported.
C4_FluxPositive ==
    (op = "read_track" /\ Returned)
        => \A i \in 1..Len(outcome.value.flux_list) :
               outcome.value.flux_list[i] >= 1

\* C5: read_track(nr_revs, nr_retries=N) writes at most N+1 ReadFlux
\* frames; a Flux Overflow acked to GetFluxStatus after at most N ReadFlux
\* frames restarts the pipeline, one acked after the (N+1)-th propagates
\* as CmdError with code 4 (with N = 0: the first one).
C5_RetryBudget ==
    op = "read_track" =>
        /\ NrFrames(Cmd_ReadFlux) <= arg.nr_retries + 1
        /\ (log # <<>>
            /\ AckOf(Len(log), Cmd_GetFluxStatus, Ack_FluxOverflow))
           => IF NrFrames(Cmd_ReadFlux) <= arg.nr_retries
              THEN pc \in {"_read_track", "ReadFlux"} /\ outcome.kind = "none"
              ELSE /\ pc = "done"
                   /\ outcome = CmdError(Cmd_GetFluxStatus, Ack_FluxOverflow)
        /\ \A i \in 1..(Len(log) - 1) :
              AckOf(i, Cmd_GetFluxStatus, Ack_FluxOverflow)
                  => IsFrame(i + 1, Cmd_ReadFlux)

\* the overflow of the last allowed attempt propagates, after a retry
C5_Witness ==
    /\ op = "read_track" /\ pc = "done"
    /\ arg.nr_retries >= 1
    /\ NrFrames(Cmd_ReadFlux) = arg.nr_retries + 1
    /\ outcome = CmdError(Cmd_GetFluxStatus, Ack_FluxOverflow)

\* a command error that ends the call: log[i] is the last event and the
\* call is over with that error
Propagates(i) ==
    /\ i = Len(log)
    /\ pc = "done"
    /\ outcome = CmdError(log[i].data[1], log[i].data[2])

\* C6 as stated: the only error that restarts the pipeline is code 4 in
\* the ack of GetFluxStatus; every other command error (any other code,
\* any error acked to ReadFlux or GetIndexTimes) propagates at once.
C6_OnlyFluxStatusRestarts ==
    op = "read_track" =>
        \A i \in 1..Len(log) :
            (IsErrorAck(i)
             /\ log[i].data # <<Cmd_GetFluxStatus, Ack_FluxOverflow>>)
                => Propagates(i)

\* C6 amended: the errors that restart the pipeline are those with code 4
\* raised inside _read_track, by the ack of ReadFlux or of GetFluxStatus;
\* every other command error (any other code, any error acked to
\* GetIndexTimes) propagates at once, and every ReadFlux frame but the
\* first directly follows such a code 4 ack.
C6_OnlyOverflowRestarts ==
    op = "read_track" =>
        /\ \A i \in 1..Len(log) :
              (IsErrorAck(i)
               /\ ~(log[i].data[2] = Ack_FluxOverflow
                    /\ log[i].data[1] \in {Cmd_ReadFlux, Cmd_GetFluxStatus}))
                  => Propagates(i)
        /\ \A i \in 2..Len(log) :
              IsFrame(i, Cmd_ReadFlux)
                  => /\ IsErrorAck(i - 1)
                     /\ log[i - 1].data[2] = Ack_FluxOverflow
                     /\ log[i - 1].data[1] \in {Cmd_ReadFlux, Cmd_GetFluxStatus}

\* a Flux Overflow acked to GetIndexTimes propagates though retries remain
C6_Witness ==
    /\ op = "read_track" /\ pc = "done"
    /\ retry < arg.nr_retries
    /\ outcome = CmdError(Cmd_GetIndexTimes, Ack_FluxOverflow)

\* F[1] + ... + F[k]
PrefixSum(F, k) == Sum(SubSeq(F, 1, k))

\* the flux list C8 describes, for decoded flux F and first index time i0
ClippedAt(F, i0) ==
    LET over == {k \in 1..Len(F) : PrefixSum(F, k) > i0} IN
    IF over = {} THEN <<>>
    ELSE LET k == CHOOSE m \in over : \A n \in over : m <= n IN
         <<PrefixSum(F, k) - i0>> \o SubSeq(F, k + 1, Len(F))

\* the decoded flux of the bytes streamed after the last ReadFlux frame
StreamedFlux == _decode_flux(rx).value

\* the nr_revs+1 index times of the last transport read
ReportedIndex == UnpackAll(Last(log).data, arg.nr_revs + 1, 4)

\* C8: with F the decoded flux of the bytes streamed in the final attempt
\* only and I the index list, read_track returns index_times = I[1..nr_revs]
\* and the flux list that is empty if no prefix sum of F exceeds I[0], and
\* otherwise [S_k - I[0]] followed by F[k+1..] for the least k with
\* S_k > I[0].
C8_ClipResult ==
    (op = "read_track" /\ Returned) =>
        /\ _decode_flux(rx).kind = "return"
        /\ outcome.value.index_list
              = SubSeq(ReportedIndex, 2, arg.nr_revs + 1)
        /\ outcome.value.flux_list
              = ClippedAt(StreamedFlux, ReportedIndex[1])

\* a capture returned after a retry, whose clip point is not the first
\* interval and is followed by another interval
C8_Witness ==
    /\ op = "read_track" /\ Returned
    /\ retry >= 1
    /\ arg.nr_revs = 1
    /\ Len(outcome.value.flux_list) >= 2
    /\ Len(StreamedFlux) > Len(outcome.value.flux_list)

\* C9 as stated: the returned flux list, when not empty, sums to at least
\* the sum of the returned index times.
C9_FluxCoversIndex ==
    (op = "read_track" /\ Returned /\ outcome.value.flux_list # <<>>)
        => Sum(outcome.value.flux_list) >= Sum(outcome.value.index_list)

\* C9 amended: the returned flux list, when not empty, sums to the sum of
\* the decoded flux minus the first index time I[0]; so it sums to at least
\* the sum of the returned index times exactly when the decoded flux sums
\* to at least the sum of all nr_revs+1 index times.
C9_FluxSum ==
    (op = "read_track" /\ Returned /\ outcome.value.flux_list # <<>>)
        => /\ Sum(outcome.value.flux_list)
                 = Sum(StreamedFlux) - ReportedIndex[1]
           /\ (Sum(outcome.value.flux_list) >= Sum(outcome.value.index_list))
                 <=> (Sum(StreamedFlux) >= Sum(ReportedIndex))

\* a clipped capture that does cover its one whole revolution
C9_Witness ==
    /\ op = "read_track" /\ Returned
    /\ Len(outcome.value.flux_list) >= 2
    /\ outcome.value.flux_list[1] # StreamedFlux[1]
    /\ outcome.value.index_list = <<4>>
    /\ Sum(outcome.value.flux_list) >= 4

-----------------------------------------------------------------------------
(* Claims about write_track (checked under SpecWrite).                     *)

WriteFluxFrame == <<Cmd_WriteFlux, 7, 0, 0, 0, 0, 1>>
GetFluxStatusFrame == <<Cmd_GetFluxStatus, 2>>

\* log[i] is the write of the encoded payload
IsPayload(i) ==
    /\ log[i].ev = "write"
    /\ log[i].data # WriteFluxFrame /\ log[i].data # GetFluxStatusFrame

\* log[i] is the one-byte sync read
IsSync(i) == log[i].ev = "read" /\ Len(log[i].data) = 1

\* C7, the order of an attempt: each event of the call is the successor,
\* in the order WriteFlux frame, its ack, payload, sync read, GetFluxStatus
\* frame, its ack, of the event before it; an attempt starts at the
\* WriteFlux frame, at the start of the call or right after a Flux
\* Underflow ack.
C7_Order(i) ==
    CASE IsFrame(i, Cmd_WriteFlux) ->
            \/ i = 1
            \/ /\ IsErrorAck(i - 1)
               /\ log[i - 1].data[2] = Ack_FluxUnderflow
      [] IsFrame(i, Cmd_GetFluxStatus) -> i > 1 /\ IsSync(i - 1)
      [] IsPayload(i) ->
            /\ i > 2
            /\ log[i - 1] = Rd(<<Cmd_WriteFlux, Ack_Okay>>)
            /\ log[i - 2] = Wr(WriteFluxFrame)
      [] IsSync(i) -> i > 1 /\ IsPayload(i - 1)
      [] OTHER ->
            /\ IsAck(i)
            /\ log[i - 1].data \in {WriteFluxFrame, GetFluxStatusFrame}

\* C7: write_track(flux, nr_retries=N) makes at most N+1 attempts, each in
\* the order WriteFlux frame and ack, payload, sync read, GetFluxStatus
\* frame and ack; a Flux Underflow acked to GetFluxStatus with retries
\* remaining restarts at the WriteFlux frame; every attempt writes the same
\* payload, the encoding of flux; and write_track returns normally exactly
\* when a GetFluxStatus of the call is acked 0.
C7_WriteAttempts ==
    op = "write_track" =>
        /\ NrFrames(Cmd_WriteFlux) <= arg.nr_retries + 1
        /\ \A i \in 1..Len(log) : C7_Order(i)
        /\ (log # <<>>
            /\ AckOf(Len(log), Cmd_GetFluxStatus, Ack_FluxUnderflow)
            /\ NrFrames(Cmd_WriteFlux) <= arg.nr_retries)
           => pc = "WriteFlux" /\ outcome.kind = "none"
        /\ \A i \in 1..Len(log) :
              IsPayload(i) => log[i].data = _encode_flux(arg.flux_list)
        /\ Returned
              <=> \E i \in 1..Len(log) :
                     AckOf(i, Cmd_GetFluxStatus, Ack_Okay)

\* write_track([300]) returning after one underflow and one full retry
C7_Witness ==
    /\ op = "write_track" /\ Returned
    /\ arg.flux_list = <<300>>
    /\ Len(log) = 12
    /\ log[3] = Wr(<<250, 51, 0>>) /\ log[9] = Wr(<<250, 51, 0>>)
    /\ log[6] = Rd(<<Cmd_GetFluxStatus, Ack_FluxUnderflow>>)

-----------------------------------------------------------------------------
(* Claims about the session (checked under Spec).                          *)

\* C10: on a session constructed in update mode, no call other than
\* update_firmware completes normally.
C10_UpdateModeGate ==
    (HasAttr(self, "update_mode") /\ self.update_mode
     /\ op \notin {"__init__", "update_firmware"} /\ pc = "done")
        => outcome.kind # "return"

\* C11: in a session that is not in update mode, the frame the host has
\* just written after GetInfo has a command byte that is at most the
\* max_cmd of the GetInfo reply.
C11_WithinMaxCmd ==
    (HasAttr(self, "update_mode") /\ ~self.update_mode /\ cmd # <<>>)
        => cmd[1] <= self.max_cmd

\* an assignment to a delay of a session that had all five delays
DelayAssigned == op = "set_delay" /\ DelayAttrSet \subseteq DOMAIN before

\* what reading the five delays returns, in the order select, step,
\* seek_settle, motor, auto_off
HostDelays ==
    << get_delay("_select_delay"), get_delay("_step_delay"),
       get_delay("_seek_settle_delay"), get_delay("_motor_delay"),
       get_delay("_auto_off_delay") >>

\* the values of t as 16-bit little-endian fields, one after the other
LowHigh(t) ==
    [k \in 1..(2 * Len(t)) |->
        IF k % 2 = 1 THEN t[(k + 1) \div 2] % 256
                     ELSE t[k \div 2] \div 256]

\* C12: an assignment to a delay writes exactly one frame, the SetParams
\* frame <3, 13, 0> followed by the five host-side values in the order
\* select, step, seek_settle, motor, auto_off; the assigned delay reads as
\* the value assigned and the other four read as they did before.
C12_OneSetParams ==
    DelayAssigned
        => /\ get_delay(arg.attr) = arg.value
           /\ \A a \in DelayAttrSet \ {arg.attr} : get_delay(a) = before[a]
           /\ \A i \in 1..Len(log) :
                 log[i].ev = "write"
                    => /\ i = 1
                       /\ log[i].data
                            = <<Cmd_SetParams, 13, Params_Delays>>
                              \o LowHigh(HostDelays)
           /\ pc = "done"
                 => Len(log) = 2 /\ log[1].ev = "write" /\ log[2].ev = "read"

\* step_delay = 40000 in a session whose delays were 10, 3000, 15, 750,
\* 10000
C12_Witness ==
    /\ DelayAssigned /\ Returned
    /\ arg = [attr |-> "_step_delay", value |-> 40000]
    /\ before["_step_delay"] = 3000
    /\ log[1] = Wr(<<3, 13, 0, 10, 0, 64, 156, 15, 0, 238, 2, 16, 39>>)

\* C13 as stated: an assignment whose SetParams raises a command error
\* leaves the five host-side values as they were before the assignment.
C13_ErrorKeepsValues ==
    (DelayAssigned /\ pc = "done" /\ outcome.kind = "CmdError")
        => \A a \in DelayAttrSet : get_delay(a) = before[a]

\* C13: after an assignment to a delay the host-side values are the five
\* values of the SetParams frame it wrote, whatever the ack; when SetParams
\* raises a command error the assigned delay still reads as the value
\* assigned and the other four read as they did before.
C13_ErrorKeepsAssignment ==
    (DelayAssigned /\ pc = "done")
        => /\ log # <<>> /\ IsFrame(1, Cmd_SetParams)
           /\ HostDelays = UnpackAll(SubSeq(log[1].data, 4, 13), 5, 2)
           /\ outcome.kind = "CmdError"
                 => /\ get_delay(arg.attr) = arg.value
                    /\ \A a \in DelayAttrSet \ {arg.attr} :
                          get_delay(a) = before[a]

\* select_delay = 40000 refused by the Unit in a session whose select
\* delay was 10
C13_Witness ==
    /\ DelayAssigned /\ pc = "done"
    /\ outcome = CmdError(Cmd_SetParams, Ack_BadCommand)
    /\ arg = [attr |-> "_select_delay", value |-> 40000]
    /\ before["_select_delay"] = 10
    /\ get_delay("_select_delay") = 40000

-----------------------------------------------------------------------------
(* Claims about the order of the frames of read_track (checked under       *)
(* SpecRead).                                                              *)

\* a GetFluxStatus frame was written after the last ReadFlux frame
StatusAsked ==
    \E i \in 1..Len(log) :
        /\ IsFrame(i, Cmd_GetFluxStatus)
        /\ \A j \in (i + 1)..Len(log) : ~IsFrame(j, Cmd_ReadFlux)

\* C18: in a read_track call every GetFluxStatus frame directly follows a
\* ReadFlux frame acked 0 and is written when the bytes streamed for that
\* ReadFlux end with a 0 byte; every GetIndexTimes frame directly follows
\* a GetFluxStatus frame acked 0; there is at most one GetIndexTimes
\* frame, exactly one when the call returns and none when it ends with a
\* command error of ReadFlux or GetFluxStatus.
C18_ReadOrder ==
    op = "read_track"
        => /\ \A i \in 1..Len(log) :
                 /\ IsFrame(i, Cmd_GetFluxStatus)
                       => AckOf(i - 1, Cmd_ReadFlux, Ack_Okay)
                 /\ IsFrame(i, Cmd_GetIndexTimes)
                       => AckOf(i - 1, Cmd_GetFluxStatus, Ack_Okay)
           /\ StatusAsked => rx # <<>> /\ Last(rx) = 0
           /\ NrFrames(Cmd_GetIndexTimes) <= 1
           /\ Returned => NrFrames(Cmd_GetIndexTimes) = 1
           /\ (pc = "done" /\ outcome.kind = "CmdError"
               /\ outcome.cmd \in {Cmd_ReadFlux, Cmd_GetFluxStatus})
                 => NrFrames(Cmd_GetIndexTimes) = 0

\* read_track returning after one retry: ReadFlux, GetFluxStatus (acked
\* with an overflow), ReadFlux, GetFluxStatus, GetIndexTimes
C18_Witness ==
    /\ op = "read_track" /\ Returned
    /\ Len(log) = 11
    /\ IsFrame(1, Cmd_ReadFlux) /\ IsFrame(3, Cmd_GetFluxStatus)
    /\ IsFrame(5, Cmd_ReadFlux) /\ IsFrame(7, Cmd_GetFluxStatus)
    /\ IsFrame(9, Cmd_GetIndexTimes)

-----------------------------------------------------------------------------
(* Claims about the framing (checked under SpecSession).                   *)

\* C17: at most one frame is unacknowledged, and while one is, its write is
\* the last thing that happened on the transport: no frame and no payload
\* was written after it.
C17_OneOutstanding ==
    /\ unacked <= 1
    /\ unacked = 1
          => /\ log # <<>>
             /\ IsFrame(Len(log), Last(log).data[1])

\* update_firmware writing its payload after the ack of the Update frame,
\* and seek waiting for the ack of its second frame
C17_Witness ==
    \/ /\ op = "update_firmware" /\ unacked = 0
       /\ Len(log) = 3
       /\ log[2] = Rd(<<Cmd_Update, Ack_Okay>>) /\ log[3] = Wr(<<7, 9>>)
    \/ /\ op = "seek" /\ unacked = 1
       /\ Len(log) = 3 /\ IsFrame(3, Cmd_Side)

-----------------------------------------------------------------------------
(* Claims about update_firmware (checked under Spec).                      *)

\* the Update frame: command, length 6, the length of the image
UpdateFrame == <<Cmd_Update, 6>> \o LowHigh(<<Len(arg.dat), 0>>)

\* the number of bytes read from the transport in the current call
BytesRead ==
    Sum([i \in 1..Len(log) |->
            IF log[i].ev = "read" THEN Len(log[i].data) ELSE 0])

\* C19 as stated: when update_firmware returns, it has written the Update
\* frame, then the data, then read one byte, which it returns, and that
\* byte is the only byte it read.
C19_OnlyOneByteRead ==
    (op = "update_firmware" /\ Returned)
        => /\ log = <<Wr(UpdateFrame), Wr(arg.dat), Rd(<<outcome.value>>)>>
           /\ BytesRead = 1

\* C19: when update_firmware returns, it has written the Update frame,
\* read the two ack bytes (Update, 0) of that frame, written the data and
\* read one byte, which it returns: three bytes read in all.  When it does
\* not return, it has read the two ack bytes only and written no data.
C19_AckThenOneByte ==
    op = "update_firmware"
        => /\ Returned
                 => /\ log = <<Wr(UpdateFrame), Rd(<<Cmd_Update, Ack_Okay>>),
                               Wr(arg.dat), Rd(<<outcome.value>>)>>
                    /\ BytesRead = 3
           /\ (pc = "done" /\ outcome.kind # "return")
                 => /\ Len(log) = 2 /\ log[1] = Wr(UpdateFrame)
                    /\ BytesRead = 2

\* update_firmware([7, 9]) returning the byte 1 the Unit sent last
C19_Witness ==
    /\ op = "update_firmware" /\ Returned
    /\ arg.dat = <<7, 9>>
    /\ outcome.value = 1
    /\ log = <<Wr(<<1, 6, 2, 0, 0, 0>>), Rd(<<1, 0>>), Wr(<<7, 9>>),
               Rd(<<1>>)>>

-----------------------------------------------------------------------------
(* Claims about with_drive_selected (checked under SpecScoped).            *)

MotorOff == Wr(<<Cmd_Motor, 3, 0>>)
SelectOff == Wr(<<Cmd_Select, 3, 0>>)

\* a Motor(0) frame and later a Select(0) frame were written after log[k]
ReleasedAfter(k) ==
    \E i, j \in (k + 1)..Len(log) :
        i < j /\ log[i] = MotorOff /\ log[j] = SelectOff

\* C14: when with_drive_selected has exited, on whichever path and
\* whatever the acks were, a Motor(0) frame and after it a Select(0) frame
\* have been written.
C14_Released == wds.at = "exited" => ReleasedAfter(0)

\* C15: when with_drive_selected has exited after a cancellation, the
\* reset is the first thing that happened on the transport after the
\* interruption, Motor(0) and then Select(0) were written after the reset,
\* and no flux record is returned.
C15_ResetThenRelease ==
    (wds.at = "exited" /\ wds.cancelled)
        => /\ \E k \in 1..(Len(log) - 1) :
                 /\ log[k] = InterruptEv
                 /\ log[k + 1] = ResetEv
                 /\ ReleasedAfter(k + 1)
           /\ wds.outcome.kind = "return" => wds.outcome.value = "None"

\* C16: when with_drive_selected has exited after a cancellation, it has
\* not ended like a call whose operation completed, that is by returning.
C16_CancellationSurfaced ==
    (wds.at = "exited" /\ wds.cancelled) => wds.outcome.kind # "return"

=============================================================================
